---- MODULE Spec2Model ----
(***************************************************************************)
(* Boat booking backend: reservation creation (create-checkout-session),   *)
(* payment confirmation (Stripe webhook) and the administrative deletions  *)
(* that touch the Booking table through its foreign keys.                  *)
(*                                                                         *)
(* Every request handler is an async function: the synchronous code        *)
(* between two awaits runs atomically (single-threaded event loop), each   *)
(* awaited database statement is executed atomically by the database, and  *)
(* handlers of different requests interleave at the awaits.                *)
(***************************************************************************)
EXTENDS Integers, FiniteSets, Sequences, TLC

(* ------------------------------ bounds --------------------------------- *)
MaxWebhookReqs == 2
MaxCheckoutReqs == 2
MaxRegisterReqs == 2

Webhooks == 1..MaxWebhookReqs
Checkouts == 1..MaxCheckoutReqs
Registers == 1..MaxRegisterReqs

(* --------------------------- value domains ----------------------------- *)
Undefined == "undefined"
Null == "null"
None == "none"

CompletedType == "checkout.session.completed"
OtherType == "payment_intent.succeeded"
EventTypes == {CompletedType, OtherType}

AdminUser == "admin"
PlainUser == "user1"
InitUsers == {AdminUser, PlainUser}
InitRoles == (AdminUser :> "ADMIN") @@ (PlainUser :> "USER")

\* A request without a jwt cookie; the others carry the token of the user
\* they name.
Anonymous == "anonymous"
Callers == {AdminUser, PlainUser, Anonymous}

\* The role in the payload of the caller's token.
TokenRole(caller) == IF caller = AdminUser THEN "ADMIN" ELSE "USER"
InitPorts == {"portA"}
\* Prices and rates are Float: a number stands for that many thousandths of
\* a euro, so that prices below one cent exist.
MoneyScale == 1000
Euro(n) == n * MoneyScale

\* The number a missing operand makes of an arithmetic expression
\* (boat.hourlyRate * undefined); no price or duration of the model equals it.
NaN == -1000000000

InitBoats ==
    "boatA" :> [name |-> "Aegean", portId |-> "portA",
                hourlyRate |-> Euro(50), halfDayRate |-> Euro(300),
                fullDayRate |-> Euro(500)]

\* Booking ids are uuids: fresh, never reused.  They are numbered in the
\* order of creation; one more id than can ever be created stays unknown.
BookingIds == 1..(MaxCheckoutReqs + 1)

\* session.metadata?.bookingId when the metadata carries none (falsy).
NoBookingId == 0

\* No session: the ids the gateway gives its sessions ("cs_...") are not
\* booking ids (uuids); they are the negative numbers.
NoSessionId == 0

\* An id that no booking of this database has (an event of another
\* environment of the same gateway account).
ForeignBookingId == MaxCheckoutReqs + 1

\* Events a webhook request can carry: signature valid or not, type, and
\* the bookingId of session.metadata.
\* Completed-payment events with a valid signature carry any id or none; the
\* events the handler does not apply carry the id of the first booking.
Events ==
    [sigValid : {TRUE}, type : {CompletedType}, bookingId : BookingIds \cup {NoBookingId}]
      \cup [sigValid : {TRUE}, type : {OtherType}, bookingId : {1}]
      \cup [sigValid : {FALSE}, type : EventTypes, bookingId : {1}]

\* Bodies of create-checkout-session requests.
\* absent names the fields the body does not have; an absent field reads as
\* undefined, which stands as "undefined", 0, FALSE or NaN where it is used.
GoodRequest ==
    [boatId |-> "boatA", portId |-> "portA", userId |-> PlainUser,
     startTime |-> 1, endTime |-> 2, includeCaptain |-> TRUE,
     bookingType |-> "per_hour", durationHours |-> 4, absent |-> {},
     caller |-> PlainUser]

\* The body r without field f.
Omit(r, f) ==
    [r EXCEPT ![f] = IF f \in {"startTime", "endTime"} THEN 0
                     ELSE IF f = "durationHours" THEN NaN
                     ELSE IF f = "includeCaptain" THEN FALSE
                     ELSE Undefined,
              !.absent = r.absent \cup {f}]
CheckoutRequests ==
    {GoodRequest,
     [GoodRequest EXCEPT !.boatId = "boatX"],
     Omit(GoodRequest, "portId")}

NoRequest == [boatId |-> Undefined, portId |-> Undefined, userId |-> Undefined,
              startTime |-> 0, endTime |-> 0,
              includeCaptain |-> FALSE, bookingType |-> Undefined,
              durationHours |-> 0, absent |-> {}, caller |-> Anonymous]
NoEvent == [sigValid |-> FALSE, type |-> None, bookingId |-> NoBookingId]

VARIABLES
    serverState,      \* "starting" | "listening" | "exited"
    webhookSecretSet, \* process.env.STRIPE_WEBHOOK_SECRET is set
    users, ports, boats, bookings,   \* database tables
    sessions,         \* Stripe checkout sessions created so far
    cpc, creq, cprice, cbooking, cstatus,   \* checkout handlers
    cretryOf,   \* history: the booking a failed attempt with the same body left
    cresponse,  \* the id in the body of the 200 response
    roles,            \* column role of table User
    rpc, remail, rcount, rstatus,           \* register handlers
    portDeletedBy,    \* history: the callers whose request removed a port
    wpc, wev, woutcome, wstatus,            \* webhook handlers
    wredelivered      \* history: the same event had been answered with success
                      \* before this delivery of it began

dbVars == <<users, roles, ports, boats, bookings>>
coVars == <<cpc, creq, cprice, cbooking, cstatus, cretryOf, cresponse>>
regVars == <<rpc, remail, rcount, rstatus>>
whVars == <<wpc, wev, woutcome, wstatus, wredelivered>>
vars == <<serverState, webhookSecretSet, users, roles, ports, boats, bookings,
          sessions, cpc, creq, cprice, cbooking, cstatus, cretryOf, cresponse,
          rpc, remail, rcount, rstatus, portDeletedBy,
          wpc, wev, woutcome, wstatus, wredelivered>>

Init ==
    /\ serverState = "starting"
    /\ webhookSecretSet \in BOOLEAN
    /\ users = InitUsers
    /\ roles = InitRoles
    /\ ports = InitPorts
    /\ boats = InitBoats
    /\ bookings = << >>
    /\ sessions = {}
    /\ cpc = [c \in Checkouts |-> "idle"]
    /\ creq = [c \in Checkouts |-> NoRequest]
    /\ cprice = [c \in Checkouts |-> 0]
    /\ cretryOf = [c \in Checkouts |-> NoBookingId]
    /\ cresponse = [c \in Checkouts |-> NoSessionId]
    /\ rpc = [r \in Registers |-> "idle"]
    /\ remail = [r \in Registers |-> Undefined]
    /\ rcount = [r \in Registers |-> 0]
    /\ rstatus = [r \in Registers |-> 0]
    /\ portDeletedBy = {}
    /\ cbooking = [c \in Checkouts |-> NoBookingId]
    /\ cstatus = [c \in Checkouts |-> 0]
    /\ wpc = [w \in Webhooks |-> "idle"]
    /\ wev = [w \in Webhooks |-> NoEvent]
    /\ woutcome = [w \in Webhooks |-> None]
    /\ wstatus = [w \in Webhooks |-> 0]
    /\ wredelivered = [w \in Webhooks |-> FALSE]

(* ------------------------------ server --------------------------------- *)
\* startServer: prisma.$connect() resolves, app.listen.
StartServer ==
    /\ serverState = "starting"
    /\ serverState' = "listening"
    /\ UNCHANGED <<webhookSecretSet, regVars, portDeletedBy, dbVars, sessions, coVars, whVars>>

\* startServer: prisma.$connect() rejects, process.exit(1).
StartServerFail ==
    /\ serverState = "starting"
    /\ serverState' = "exited"
    /\ UNCHANGED <<webhookSecretSet, regVars, portDeletedBy, dbVars, sessions, coVars, whVars>>

(* ------------------------------ webhook -------------------------------- *)
\* stripe.webhooks.constructEvent returns (TRUE) or throws (FALSE).
ConstructEventMut(ev) == TRUE
ConstructEvent(ev) == ev.sigValid

\* switch (event.type): case 'checkout.session.completed'.
IsCompletedEventMut(ev) == TRUE
IsCompletedEvent(ev) == ev.type = CompletedType

\* prisma.booking.update resolves when the row exists and throws P2025
\* otherwise: the try block logs success, the catch block logs the error.
UpdateOutcomeMut(id) == "success"
UpdateOutcome(id) == IF id \in DOMAIN bookings THEN "success" ELSE "notFound"

\* data of prisma.booking.update: { paid: true }.
SettledDataMut(b) == [b EXCEPT !.paid = ~b.paid]
SettledData(b) == [b EXCEPT !.paid = TRUE]

\* const bookingId = session.metadata?.bookingId.
MetadataBookingId(ev) == ev.bookingId

\* The requests that reach the endpoint: anyone can post an event that fails
\* the signature check; the gateway signs a completed event only for a
\* session that was created, and the sessions whose metadata.bookingId is an
\* id of this database are those of stripe.checkout.sessions.create.
GatewayEmits(ev) ==
    \/ ~ev.sigValid
    \/ ev.type # CompletedType
    \/ ev.bookingId \in {NoBookingId, ForeignBookingId}
    \/ \E s \in sessions : s.bookingId = ev.bookingId

\* The synchronous part of the handler, up to the awaited update or up to
\* the response when no update is issued.
WebhookReceive(w, ev) ==
    /\ serverState = "listening"
    /\ wpc[w] = "idle"
    /\ GatewayEmits(ev)
    /\ wev' = [wev EXCEPT ![w] = ev]
    /\ wredelivered' = [wredelivered EXCEPT ![w] =
            \E v \in Webhooks :
                wpc[v] = "done" /\ wev[v] = ev /\ woutcome[v] = "success"]
    /\ IF ~webhookSecretSet
         THEN /\ wpc' = [wpc EXCEPT ![w] = "done"]
              /\ woutcome' = [woutcome EXCEPT ![w] = "secretNotConfigured"]
              /\ wstatus' = [wstatus EXCEPT ![w] = 500]
       ELSE IF ~ConstructEvent(ev)
         THEN /\ wpc' = [wpc EXCEPT ![w] = "done"]
              /\ woutcome' = [woutcome EXCEPT ![w] = "signatureInvalid"]
              /\ wstatus' = [wstatus EXCEPT ![w] = 400]
       ELSE IF IsCompletedEvent(ev) /\ MetadataBookingId(ev) # NoBookingId
         THEN /\ wpc' = [wpc EXCEPT ![w] = "update"]
              /\ UNCHANGED <<woutcome, wstatus>>
       ELSE IF IsCompletedEvent(ev)
         THEN /\ wpc' = [wpc EXCEPT ![w] = "done"]
              /\ woutcome' = [woutcome EXCEPT ![w] = "missingBookingId"]
              /\ wstatus' = [wstatus EXCEPT ![w] = 200]
       ELSE /\ wpc' = [wpc EXCEPT ![w] = "done"]
            /\ woutcome' = [woutcome EXCEPT ![w] = "unhandledType"]
            /\ wstatus' = [wstatus EXCEPT ![w] = 200]
    /\ UNCHANGED <<serverState, webhookSecretSet, regVars, portDeletedBy, dbVars, sessions, coVars>>

\* (the update has no where clause: every row is written)
WebhookUpdateMut(w) ==
    /\ wpc[w] = "update"
    /\ woutcome' = [woutcome EXCEPT ![w] = UpdateOutcome(MetadataBookingId(wev[w]))]
    /\ bookings' = [b \in DOMAIN bookings |-> SettledData(bookings[b])]
    /\ wpc' = [wpc EXCEPT ![w] = "respond"]
    /\ UNCHANGED <<serverState, webhookSecretSet, regVars, portDeletedBy, users, roles,
                   ports, boats, sessions, coVars, wev, wstatus, wredelivered>>

\* The database executes prisma.booking.update({where: {id}, data: {paid: true}}):
\* the row is written, or the statement throws P2025 (no such row).
WebhookUpdate(w) ==
    /\ wpc[w] = "update"
    /\ LET id == MetadataBookingId(wev[w]) IN
       /\ woutcome' = [woutcome EXCEPT ![w] = UpdateOutcome(id)]
       /\ IF id \in DOMAIN bookings
            THEN bookings' = [bookings EXCEPT ![id] = SettledData(bookings[id])]
            ELSE bookings' = bookings
    /\ wpc' = [wpc EXCEPT ![w] = "respond"]
    /\ UNCHANGED <<serverState, webhookSecretSet, regVars, portDeletedBy, users, roles, ports, boats, sessions,
                   coVars, wev, wstatus, wredelivered>>

\* The update throws for a reason other than a missing row (store failure).
WebhookUpdateFail(w) ==
    /\ wpc[w] = "update"
    /\ woutcome' = [woutcome EXCEPT ![w] = "storeError"]
    /\ wpc' = [wpc EXCEPT ![w] = "respond"]
    /\ UNCHANGED <<serverState, webhookSecretSet, regVars, portDeletedBy, dbVars, sessions,
                   coVars, wev, wstatus, wredelivered>>

\* The continuation after the awaited update: log, break, res.json({received: true}).
WebhookRespond(w) ==
    /\ wpc[w] = "respond"
    /\ wpc' = [wpc EXCEPT ![w] = "done"]
    /\ wstatus' = [wstatus EXCEPT ![w] = 200]
    /\ UNCHANGED <<serverState, webhookSecretSet, regVars, portDeletedBy, dbVars, sessions,
                   coVars, wev, woutcome, wredelivered>>

(* ------------------------------ checkout ------------------------------- *)
\* JavaScript truthiness of a request field: !x is true of a missing string
\* field and of a missing or zero number.
Truthy(x) == x # Undefined
TruthyNum(n) == n # 0

\* "Basic validation to ensure all required fields are provided".
ValidRequest(req) ==
    /\ Truthy(req.boatId) /\ Truthy(req.portId) /\ Truthy(req.userId)
    /\ TruthyNum(req.startTime) /\ TruthyNum(req.endTime) /\ Truthy(req.bookingType)

\* "Calculate base price based on booking type".
BasePrice(boat, bookingType, durationHours) ==
    IF bookingType = "per_hour"
      THEN IF durationHours = NaN THEN NaN ELSE boat.hourlyRate * durationHours
    ELSE IF bookingType = "half_day" THEN boat.halfDayRate
    ELSE IF bookingType = "full_day" THEN boat.fullDayRate
    ELSE 0

\* "Add captain fee if selected".
CaptainFeeMut(bookingType, includeCaptain) ==
    IF ~includeCaptain THEN 0 ELSE Euro(100)
CaptainFee(bookingType, includeCaptain) ==
    IF ~includeCaptain THEN 0
    ELSE IF bookingType = "per_hour" THEN Euro(100)
    ELSE IF bookingType = "half_day" THEN Euro(200)
    ELSE IF bookingType = "full_day" THEN Euro(400)
    ELSE 0

Price(boat, req) ==
    LET base == BasePrice(boat, req.bookingType, req.durationHours) IN
    IF base = NaN THEN NaN ELSE base + CaptainFee(req.bookingType, req.includeCaptain)

\* Math.round(price * 100): the nearest integer, a half rounded up.
UnitAmountMut(price) ==
    IF price = NaN THEN NaN ELSE (100 * price) \div MoneyScale
UnitAmount(price) ==
    IF price = NaN THEN NaN ELSE (2 * 100 * price + MoneyScale) \div (2 * MoneyScale)

\* data of prisma.booking.create.
NewBookingMut(req, price) ==
    [boatId |-> req.boatId, portId |-> req.portId, userId |-> req.userId,
     startTime |-> req.startTime, endTime |-> req.endTime,
     includeCaptain |-> req.includeCaptain, price |-> price, paid |-> TRUE]
NewBooking(req, price) ==
    [boatId |-> req.boatId, portId |-> req.portId, userId |-> req.userId,
     startTime |-> req.startTime, endTime |-> req.endTime,
     includeCaptain |-> req.includeCaptain, price |-> price, paid |-> FALSE]

\* @default(uuid()): an id no row has.
FreshBookingId == Cardinality(DOMAIN bookings) + 1

\* The handler answered 500 after its booking row was written.
FailedAfterCreate(c) ==
    cpc[c] = "done" /\ cstatus[c] = 500 /\ cbooking[c] # NoBookingId

\* The bookings left by failed attempts with the body req: a request with
\* that body is then a retry.
LeftPending(req) ==
    {cbooking[d] : d \in {x \in Checkouts : FailedAfterCreate(x) /\ creq[x] = req}}

\* (the handler does not look the boat up)
CheckoutBeginMut(c, req) ==
    /\ serverState = "listening"
    /\ cpc[c] = "idle"
    /\ ValidRequest(req)
    /\ creq' = [creq EXCEPT ![c] = req]
    /\ cprice' = [cprice EXCEPT ![c] = 0]
    /\ cpc' = [cpc EXCEPT ![c] = "create"]
    /\ UNCHANGED <<serverState, webhookSecretSet, regVars, portDeletedBy, dbVars, sessions, cbooking,
                   cstatus, cretryOf, cresponse, whVars>>

\* Destructure the body and validate it (400); prisma.boat.findUnique reads
\* the boat (404 when there is none); the price is computed from the row read
\* and prisma.booking.create is awaited.  The validation touches no shared
\* state, so it is one step with the read that follows it.
CheckoutBegin(c, req) ==
    /\ serverState = "listening"
    /\ cpc[c] = "idle"
    /\ creq' = [creq EXCEPT ![c] = req]
    /\ cretryOf' = [cretryOf EXCEPT ![c] =
            IF LeftPending(req) = {} THEN NoBookingId
            ELSE CHOOSE b \in LeftPending(req) : \A x \in LeftPending(req) : b <= x]
    /\ IF ~ValidRequest(req)
         THEN /\ cpc' = [cpc EXCEPT ![c] = "done"]
              /\ cstatus' = [cstatus EXCEPT ![c] = 400]
              /\ UNCHANGED cprice
       ELSE IF req.boatId \notin DOMAIN boats
         THEN /\ cpc' = [cpc EXCEPT ![c] = "done"]
              /\ cstatus' = [cstatus EXCEPT ![c] = 404]
              /\ UNCHANGED cprice
       ELSE /\ cprice' = [cprice EXCEPT ![c] = Price(boats[req.boatId], req)]
            /\ cpc' = [cpc EXCEPT ![c] = "create"]
            /\ UNCHANGED cstatus
    /\ UNCHANGED <<serverState, webhookSecretSet, regVars, portDeletedBy, dbVars,
                   sessions, cbooking, cresponse, whVars>>

\* Booking_boatId_fkey, Booking_portId_fkey, Booking_userId_fkey.
ForeignKeysHold(b) ==
    /\ b.boatId \in DOMAIN boats
    /\ b.portId \in ports
    /\ b.userId \in users

\* Two bookings of one boat whose time windows share an instant.
Overlap(a, b) ==
    /\ a.boatId = b.boatId
    /\ a.startTime < b.endTime
    /\ b.startTime < a.endTime

\* (the insert is refused, 409, when the boat is booked in that window)
CheckoutCreateOverlapMut(c) ==
    /\ cpc[c] = "create"
    /\ LET b == NewBooking(creq[c], cprice[c]) IN
       IF \E x \in DOMAIN bookings : Overlap(bookings[x], b)
         THEN /\ cpc' = [cpc EXCEPT ![c] = "done"]
              /\ cstatus' = [cstatus EXCEPT ![c] = 409]
              /\ UNCHANGED <<bookings, cbooking>>
         ELSE /\ bookings' = bookings @@ (FreshBookingId :> b)
              /\ cbooking' = [cbooking EXCEPT ![c] = FreshBookingId]
              /\ cpc' = [cpc EXCEPT ![c] = "stripe"]
              /\ UNCHANGED cstatus
    /\ UNCHANGED <<serverState, webhookSecretSet, regVars, portDeletedBy, users, roles,
                   ports, boats, sessions, creq, cprice, cretryOf, cresponse, whVars>>

\* (the handler goes on to the gateway without the row)
CheckoutCreateMut(c) ==
    /\ cpc[c] = "create"
    /\ cbooking' = [cbooking EXCEPT ![c] = FreshBookingId]
    /\ cpc' = [cpc EXCEPT ![c] = "stripe"]
    /\ UNCHANGED <<serverState, webhookSecretSet, regVars, portDeletedBy, dbVars, sessions,
                   creq, cprice, cstatus, cretryOf, cresponse, whVars>>

\* The database executes the insert; a violated foreign key makes it throw,
\* and so does a price that is not a number (the query has no value for the
\* required column); the handler's catch answers with 500.
CheckoutCreate(c) ==
    /\ cpc[c] = "create"
    /\ LET b == NewBooking(creq[c], cprice[c]) IN
       IF ForeignKeysHold(b) /\ b.price # NaN
         THEN /\ bookings' = bookings @@ (FreshBookingId :> b)
              /\ cbooking' = [cbooking EXCEPT ![c] = FreshBookingId]
              /\ cpc' = [cpc EXCEPT ![c] = "stripe"]
              /\ UNCHANGED cstatus
         ELSE /\ cpc' = [cpc EXCEPT ![c] = "done"]
              /\ cstatus' = [cstatus EXCEPT ![c] = 500]
              /\ UNCHANGED <<bookings, cbooking>>
    /\ UNCHANGED <<serverState, webhookSecretSet, regVars, portDeletedBy, users, roles, ports, boats, sessions,
                   creq, cprice, cretryOf, cresponse, whVars>>

\* A database statement of the handler fails (connection lost): catch, 500.
CheckoutStoreFail(c) ==
    /\ cpc[c] = "create"
    /\ cpc' = [cpc EXCEPT ![c] = "done"]
    /\ cstatus' = [cstatus EXCEPT ![c] = 500]
    /\ UNCHANGED <<serverState, webhookSecretSet, regVars, portDeletedBy, dbVars, sessions,
                   creq, cprice, cbooking, cretryOf, cresponse, whVars>>

\* session.id: an id of the gateway's that no session has yet.
GatewaySessionId == 0 - (Cardinality(sessions) + 1)

\* res.json({ url: session.url, id: session.id }).
ResponseIdMut(c, session) == cbooking[c]
ResponseId(c, session) == session.id

\* The session object sent to stripe.checkout.sessions.create: success_url
\* with ?bookingId=, line_items, metadata.
NewSessionMut(c) ==
    [id |-> GatewaySessionId,
     successBookingId |-> cbooking[c],
     bookingId |-> IF cretryOf[c] # NoBookingId THEN cretryOf[c] ELSE cbooking[c],
     unit_amount |-> UnitAmount(cprice[c]),
     userId |-> creq[c].userId, boatId |-> creq[c].boatId, portId |-> creq[c].portId]
NewSession(c) ==
    [id |-> GatewaySessionId,
     successBookingId |-> cbooking[c],
     bookingId |-> cbooking[c], unit_amount |-> UnitAmount(cprice[c]),
     userId |-> creq[c].userId, boatId |-> creq[c].boatId, portId |-> creq[c].portId]

\* stripe.checkout.sessions.create resolves; res.json({url, id}).  The
\* gateway accepts no negative unit_amount.
CheckoutStripe(c) ==
    /\ cpc[c] = "stripe"
    /\ NewSession(c).unit_amount >= 0
    /\ sessions' = sessions \cup {NewSession(c)}
    /\ cresponse' = [cresponse EXCEPT ![c] = ResponseId(c, NewSession(c))]
    /\ cpc' = [cpc EXCEPT ![c] = "done"]
    /\ cstatus' = [cstatus EXCEPT ![c] = 200]
    /\ UNCHANGED <<serverState, webhookSecretSet, regVars, portDeletedBy, dbVars,
                   creq, cprice, cbooking, cretryOf, whVars>>

\* (the catch block removes the row it wrote)
CheckoutStripeFailMut(c) ==
    /\ cpc[c] = "stripe"
    /\ cpc' = [cpc EXCEPT ![c] = "done"]
    /\ cstatus' = [cstatus EXCEPT ![c] = 500]
    /\ bookings' = [b \in DOMAIN bookings \ {cbooking[c]} |-> bookings[b]]
    /\ UNCHANGED <<serverState, webhookSecretSet, regVars, portDeletedBy, users, roles, ports, boats, sessions,
                   creq, cprice, cbooking, cretryOf, cresponse, whVars>>

\* stripe.checkout.sessions.create rejects; catch, 500.
CheckoutStripeFail(c) ==
    /\ cpc[c] = "stripe"
    /\ cpc' = [cpc EXCEPT ![c] = "done"]
    /\ cstatus' = [cstatus EXCEPT ![c] = 500]
    /\ UNCHANGED <<serverState, webhookSecretSet, regVars, portDeletedBy, dbVars, sessions,
                   creq, cprice, cbooking, cretryOf, cresponse, whVars>>

(* ------------------------- administrative deletes ---------------------- *)
\* ON DELETE SET NULL of the Booking foreign key named by field.
SetNullMut(field, id) ==
    [b \in DOMAIN bookings |->
        IF bookings[b][field] = id
          THEN [bookings[b] EXCEPT ![field] = Null, !.price = 0] ELSE bookings[b]]
SetNull(field, id) ==
    [b \in DOMAIN bookings |->
        IF bookings[b][field] = id
          THEN [bookings[b] EXCEPT ![field] = Null] ELSE bookings[b]]

\* authenticateJWT: the jwt cookie is there and verifies.
AuthenticateJWT(caller) == caller # Anonymous

\* authorizeRole(requiredRoles): req.user.role is one of them.
AuthorizeRole(caller, requiredRoles) == TokenRole(caller) \in requiredRoles

\* (Booking_boatId_fkey were ON DELETE CASCADE)
DeleteBoatMut(id) ==
    /\ serverState = "listening"
    /\ id \in DOMAIN boats
    /\ boats' = [x \in DOMAIN boats \ {id} |-> boats[x]]
    /\ bookings' = [b \in {x \in DOMAIN bookings : bookings[x].boatId # id} |-> bookings[b]]
    /\ UNCHANGED <<serverState, webhookSecretSet, regVars, portDeletedBy, users, roles,
                   ports, sessions, coVars, whVars>>

\* DELETE /api/admin/boats/:id of an existing boat.
DeleteBoat(id) ==
    /\ serverState = "listening"
    /\ id \in DOMAIN boats
    /\ boats' = [x \in DOMAIN boats \ {id} |-> boats[x]]
    /\ bookings' = SetNull("boatId", id)
    /\ UNCHANGED <<serverState, webhookSecretSet, regVars, portDeletedBy, users, roles,
                   ports, sessions, coVars, whVars>>

\* prisma.port.delete({where: {id}}) of an existing port; Boat_portId_fkey is
\* ON DELETE RESTRICT.
DeletePort(id) ==
    /\ serverState = "listening"
    /\ id \in ports
    /\ \A x \in DOMAIN boats : boats[x].portId # id
    /\ ports' = ports \ {id}
    /\ bookings' = SetNull("portId", id)
    /\ UNCHANGED <<serverState, webhookSecretSet, regVars, users, roles, boats,
                   sessions, coVars, whVars>>

\* DELETE /api/admin/ports/:id, behind authenticateJWT and authorizeRole([ADMIN]).
AdminDeletePort(caller, id) ==
    /\ AuthenticateJWT(caller)
    /\ AuthorizeRole(caller, {"ADMIN"})
    /\ DeletePort(id)
    /\ portDeletedBy' = portDeletedBy \cup {caller}

\* DELETE /api/ports/:id, which has no middleware.
PortsDeletePort(caller, id) ==
    /\ DeletePort(id)
    /\ portDeletedBy' = portDeletedBy \cup {caller}

\* (Booking_userId_fkey were ON DELETE CASCADE)
DeleteUserMut(caller, id) ==
    /\ serverState = "listening"
    /\ caller = AdminUser
    /\ caller # id
    /\ id \in users
    /\ users' = users \ {id}
    /\ roles' = [u \in DOMAIN roles \ {id} |-> roles[u]]
    /\ bookings' = [b \in {x \in DOMAIN bookings : bookings[x].userId # id} |-> bookings[b]]
    /\ UNCHANGED <<serverState, webhookSecretSet, regVars, portDeletedBy, ports, boats,
                   sessions, coVars, whVars>>

\* DELETE /api/admin/users/:id by an admin other than the deleted user.
DeleteUser(caller, id) ==
    /\ serverState = "listening"
    /\ caller = AdminUser
    /\ caller # id
    /\ id \in users
    /\ users' = users \ {id}
    /\ roles' = [u \in DOMAIN roles \ {id} |-> roles[u]]
    /\ bookings' = SetNull("userId", id)
    /\ UNCHANGED <<serverState, webhookSecretSet, regVars, portDeletedBy, ports, boats,
                   sessions, coVars, whVars>>

(* ------------------------------ register ------------------------------- *)
\* The e-mail addresses of the bodies; Undefined is a body without e-mail or
\* password.
Emails == {"a@x", "b@x"}

\* userCount === 0 ? Role.ADMIN : Role.USER.
AssignedRoleMut(userCount) == "USER"
AssignedRole(userCount) == IF userCount = 0 THEN "ADMIN" ELSE "USER"

\* "Basic input validation" (400), then prisma.user.count() is awaited.
RegisterBegin(r, email) ==
    /\ serverState = "listening"
    /\ rpc[r] = "idle"
    /\ remail' = [remail EXCEPT ![r] = email]
    /\ IF ~Truthy(email)
         THEN /\ rpc' = [rpc EXCEPT ![r] = "done"]
              /\ rstatus' = [rstatus EXCEPT ![r] = 400]
         ELSE /\ rpc' = [rpc EXCEPT ![r] = "count"]
              /\ UNCHANGED rstatus
    /\ UNCHANGED <<serverState, webhookSecretSet, rcount, portDeletedBy, dbVars,
                   sessions, coVars, whVars>>

\* The database executes the count; bcrypt.hash is awaited.
RegisterCount(r) ==
    /\ rpc[r] = "count"
    /\ rcount' = [rcount EXCEPT ![r] = Cardinality(users)]
    /\ rpc' = [rpc EXCEPT ![r] = "hash"]
    /\ UNCHANGED <<serverState, webhookSecretSet, remail, rstatus, portDeletedBy,
                   dbVars, sessions, coVars, whVars>>

\* bcrypt.hash resolves; prisma.user.create is awaited.
RegisterHash(r) ==
    /\ rpc[r] = "hash"
    /\ rpc' = [rpc EXCEPT ![r] = "create"]
    /\ UNCHANGED <<serverState, webhookSecretSet, remail, rcount, rstatus,
                   portDeletedBy, dbVars, sessions, coVars, whVars>>

\* The database executes the insert with the role chosen from the count read
\* before; the unique index on email makes it throw P2002 (409).  A user is
\* named by its e-mail address.
RegisterCreate(r) ==
    /\ rpc[r] = "create"
    /\ IF remail[r] \in users
         THEN /\ rstatus' = [rstatus EXCEPT ![r] = 409]
              /\ UNCHANGED <<users, roles>>
         ELSE /\ users' = users \cup {remail[r]}
              /\ roles' = roles @@ (remail[r] :> AssignedRole(rcount[r]))
              /\ rstatus' = [rstatus EXCEPT ![r] = 201]
    /\ rpc' = [rpc EXCEPT ![r] = "done"]
    /\ UNCHANGED <<serverState, webhookSecretSet, remail, rcount, portDeletedBy,
                   ports, boats, bookings, sessions, coVars, whVars>>

\* A database statement or the hash fails: catch, 500.
RegisterFail(r) ==
    /\ rpc[r] \in {"count", "hash", "create"}
    /\ rpc' = [rpc EXCEPT ![r] = "done"]
    /\ rstatus' = [rstatus EXCEPT ![r] = 500]
    /\ UNCHANGED <<serverState, webhookSecretSet, remail, rcount, portDeletedBy,
                   dbVars, sessions, coVars, whVars>>

(* --------------------------- specification ----------------------------- *)
Next ==
    \/ StartServer
    \/ StartServerFail
    \/ \E w \in Webhooks, ev \in Events : WebhookReceive(w, ev)
    \/ \E w \in Webhooks : WebhookUpdate(w)
    \/ \E w \in Webhooks : WebhookUpdateFail(w)
    \/ \E w \in Webhooks : WebhookRespond(w)
    \/ \E c \in Checkouts, req \in CheckoutRequests : CheckoutBegin(c, req)
    \/ \E c \in Checkouts : CheckoutCreate(c)
    \/ \E c \in Checkouts : CheckoutStoreFail(c)
    \/ \E c \in Checkouts : CheckoutStripe(c)
    \/ \E c \in Checkouts : CheckoutStripeFail(c)
    \/ \E id \in DOMAIN InitBoats : DeleteBoat(id)
    \/ \E caller \in Callers, id \in InitPorts : AdminDeletePort(caller, id)
    \/ \E caller \in Callers, id \in InitPorts : PortsDeletePort(caller, id)
    \/ \E caller \in InitUsers, id \in InitUsers : DeleteUser(caller, id)

Spec == Init /\ [][Next]_vars

TypeOK ==
    /\ serverState \in {"starting", "listening", "exited"}
    /\ DOMAIN bookings \subseteq BookingIds
    /\ \A b \in DOMAIN bookings : bookings[b].paid \in BOOLEAN

(* ------------------- the booking operation on its own ------------------ *)
\* The three modes the price computation tests for.
RecognizedModes == {"per_hour", "half_day", "full_day"}

\* Rate schedules a boat row can hold: rates are Float columns without a
\* constraint, set by an admin.
RateSchedules ==
    {[name |-> "Aegean", portId |-> "portA",
      hourlyRate |-> Euro(50), halfDayRate |-> Euro(300), fullDayRate |-> Euro(500)],
     [name |-> "Aegean", portId |-> "portA",
      hourlyRate |-> 337, halfDayRate |-> 1005, fullDayRate |-> 0]}

\* The fields the handler destructures from the body.
RequestFields ==
    {"boatId", "portId", "userId", "startTime", "endTime", "includeCaptain",
     "bookingType", "durationHours"}

\* Bodies a client can post: every field present, with any boat id, booking
\* type, duration and captain flag, or one field left out.
WideRequests ==
    {[GoodRequest EXCEPT !.boatId = b, !.bookingType = m,
                         !.durationHours = d, !.includeCaptain = k] :
        b \in {"boatA", "boatX"}, m \in RecognizedModes \cup {"weekly"},
        d \in {-4, 1, 4}, k \in BOOLEAN}
    \cup {Omit(r, f) : f \in RequestFields,
                       r \in {GoodRequest, [GoodRequest EXCEPT !.bookingType = "half_day"]}}
    \cup {[GoodRequest EXCEPT !.startTime = t[1], !.endTime = t[2]] :
                t \in {<<1, 1>>, <<2, 1>>}}
    \cup {[GoodRequest EXCEPT !.caller = k, !.userId = u] :
                k \in Callers, u \in InitUsers}

\* The server is listening with its secret set and the boat row holds any
\* of the rate schedules.
BookingInit ==
    /\ serverState = "listening"
    /\ webhookSecretSet = TRUE
    /\ users = InitUsers
    /\ roles = InitRoles
    /\ ports = InitPorts
    /\ boats \in {("boatA" :> r) : r \in RateSchedules}
    /\ bookings = << >>
    /\ sessions = {}
    /\ cpc = [c \in Checkouts |-> "idle"]
    /\ creq = [c \in Checkouts |-> NoRequest]
    /\ cprice = [c \in Checkouts |-> 0]
    /\ cretryOf = [c \in Checkouts |-> NoBookingId]
    /\ cresponse = [c \in Checkouts |-> NoSessionId]
    /\ rpc = [r \in Registers |-> "idle"]
    /\ remail = [r \in Registers |-> Undefined]
    /\ rcount = [r \in Registers |-> 0]
    /\ rstatus = [r \in Registers |-> 0]
    /\ portDeletedBy = {}
    /\ cbooking = [c \in Checkouts |-> NoBookingId]
    /\ cstatus = [c \in Checkouts |-> 0]
    /\ wpc = [w \in Webhooks |-> "idle"]
    /\ wev = [w \in Webhooks |-> NoEvent]
    /\ woutcome = [w \in Webhooks |-> None]
    /\ wstatus = [w \in Webhooks |-> 0]
    /\ wredelivered = [w \in Webhooks |-> FALSE]

\* Requests to POST /create-checkout-session only: the first with any body,
\* the others with the bodies of Spec.
BookingNext ==
    \/ \E c \in Checkouts :
         \E req \in (IF c = 1 THEN WideRequests ELSE CheckoutRequests) :
             CheckoutBegin(c, req)
    \/ \E c \in Checkouts : CheckoutCreate(c)
    \/ \E c \in Checkouts : CheckoutStoreFail(c)
    \/ \E c \in Checkouts : CheckoutStripe(c)
    \/ \E c \in Checkouts : CheckoutStripeFail(c)

BookingSpec == BookingInit /\ [][BookingNext]_vars

(* ----------------------- registration on its own ----------------------- *)
\* The server is listening and the user table is empty.
RegisterInit ==
    /\ serverState = "listening"
    /\ webhookSecretSet = TRUE
    /\ users = {}
    /\ roles = << >>
    /\ ports = InitPorts
    /\ boats = InitBoats
    /\ bookings = << >>
    /\ sessions = {}
    /\ cpc = [c \in Checkouts |-> "idle"]
    /\ creq = [c \in Checkouts |-> NoRequest]
    /\ cprice = [c \in Checkouts |-> 0]
    /\ cretryOf = [c \in Checkouts |-> NoBookingId]
    /\ cresponse = [c \in Checkouts |-> NoSessionId]
    /\ cbooking = [c \in Checkouts |-> NoBookingId]
    /\ cstatus = [c \in Checkouts |-> 0]
    /\ rpc = [r \in Registers |-> "idle"]
    /\ remail = [r \in Registers |-> Undefined]
    /\ rcount = [r \in Registers |-> 0]
    /\ rstatus = [r \in Registers |-> 0]
    /\ portDeletedBy = {}
    /\ wpc = [w \in Webhooks |-> "idle"]
    /\ wev = [w \in Webhooks |-> NoEvent]
    /\ woutcome = [w \in Webhooks |-> None]
    /\ wstatus = [w \in Webhooks |-> 0]
    /\ wredelivered = [w \in Webhooks |-> FALSE]

\* Requests to POST /auth/register only.
RegisterNext ==
    \/ \E r \in Registers, email \in Emails \cup {Undefined} : RegisterBegin(r, email)
    \/ \E r \in Registers : RegisterCount(r)
    \/ \E r \in Registers : RegisterHash(r)
    \/ \E r \in Registers : RegisterCreate(r)
    \/ \E r \in Registers : RegisterFail(r)

RegisterSpec == RegisterInit /\ [][RegisterNext]_vars

(* ------------------------------ properties ----------------------------- *)
\* Handler w carries a signature-valid completed-payment event for booking b
\* and the server holds the signing secret.
ValidCompleted(w, b) ==
    /\ webhookSecretSet
    /\ wev[w].sigValid
    /\ wev[w].type = CompletedType
    /\ wev[w].bookingId = b

\* The update of handler w has been executed by the store.
Applied(w) == wpc[w] \in {"respond", "done"} /\ woutcome[w] \in {"success", "AlreadySettled"}

\* The handlers whose update for booking b has been executed and that have
\* not answered yet: their requests are open at the same time.
InFlight(b) == {w \in Webhooks : wpc[w] = "respond" /\ ValidCompleted(w, b) /\ Applied(w)}

\* C1: a booking is created with paid = false, is never removed, and once
\* paid is true it stays true in every later state, however many confirmation
\* events reference the booking.
C1_PaidMonotone ==
    [][/\ \A b \in DOMAIN bookings :
            b \in DOMAIN bookings' /\ (bookings[b].paid => bookings'[b].paid)
       /\ \A b \in DOMAIN bookings' \ DOMAIN bookings : ~bookings'[b].paid]_vars

\* Two handlers have applied a confirmation to the same, paid, booking.
C1_Witness ==
    \E b \in DOMAIN bookings :
        /\ bookings[b].paid
        /\ Cardinality({w \in Webhooks : ValidCompleted(w, b) /\ Applied(w)}) >= 2

\* C2: of N >= 2 concurrently handled signature-valid completed-payment
\* events for the same existing, unsettled booking, exactly one handler
\* obtains 'success' and the others obtain 'AlreadySettled'.
C2_ExactlyOneSuccess ==
    \A b \in DOMAIN bookings :
        ( /\ Cardinality(InFlight(b)) >= 2
          /\ \A w \in Webhooks \ InFlight(b) : ~(ValidCompleted(w, b) /\ Applied(w)) )
        => /\ Cardinality({w \in InFlight(b) : woutcome[w] = "success"}) = 1
           /\ \A w \in InFlight(b) : woutcome[w] \in {"success", "AlreadySettled"}

\* C3: a signature-valid completed-payment event for an existing booking
\* that is delivered again after its first delivery was answered with
\* success obtains AlreadySettled and an acknowledgment, and the booking is
\* paid as the first delivery left it.
C3_SecondIsAlreadySettled ==
    \A b \in DOMAIN bookings : \A w \in Webhooks :
        (wredelivered[w] /\ ValidCompleted(w, b) /\ Applied(w) /\ wpc[w] = "done")
        => /\ woutcome[w] = "AlreadySettled"
           /\ wstatus[w] = 200
           /\ bookings[b].paid

\* C4: with the secret configured, a delivery whose signature does not verify
\* is answered 400 in the step that receives it: the handler issues no store
\* statement and the tables are as they were.
C4_InvalidSignatureRejected ==
    [][\A w \in Webhooks :
         (wpc[w] = "idle" /\ wpc'[w] # "idle" /\ webhookSecretSet /\ ~wev'[w].sigValid)
         => /\ wpc'[w] = "done"
            /\ woutcome'[w] = "signatureInvalid"
            /\ wstatus'[w] = 400
            /\ dbVars' = dbVars]_vars

\* An event with an invalid signature that names an existing unpaid booking
\* was rejected.
C4_Witness ==
    \E w \in Webhooks :
        /\ wpc[w] = "done" /\ webhookSecretSet /\ ~wev[w].sigValid
        /\ wev[w].type = CompletedType
        /\ wev[w].bookingId \in DOMAIN bookings
        /\ ~bookings[wev[w].bookingId].paid

\* C5: a booking is paid only if a handler has applied a signature-valid
\* completed-payment event carrying its id.
C5_PaidOnlyByConfirmation ==
    \A b \in DOMAIN bookings :
        bookings[b].paid => \E w \in Webhooks : ValidCompleted(w, b) /\ Applied(w)

\* One booking was paid through its event while another, for which every
\* handler has finished with some other event, is still unpaid.
C5_Witness ==
    \E a, b \in DOMAIN bookings :
        /\ bookings[a].paid /\ ~bookings[b].paid
        /\ \A w \in Webhooks : wpc[w] = "done" /\ wev[w].bookingId # b

\* C6: the update issued for a signature-valid completed-payment event whose
\* id matches no booking leaves the tables unchanged and ends in the error
\* branch for a missing row, never in the success branch.
C6_UnknownReservation ==
    [][\A w \in Webhooks :
         ( /\ wpc[w] = "update" /\ wpc'[w] = "respond"
           /\ wev[w].bookingId \notin DOMAIN bookings )
         => /\ dbVars' = dbVars
            /\ woutcome'[w] \in {"notFound", "storeError"}]_vars

\* An event for an id that matches no booking was answered while the store
\* held a booking.
C6_Witness ==
    \E w \in Webhooks :
        /\ wpc[w] = "done" /\ woutcome[w] = "notFound"
        /\ DOMAIN bookings # {}
        /\ wev[w].bookingId \notin DOMAIN bookings

\* C7: a signature-valid completed-payment event that carries no booking id
\* is rejected with the missing-id outcome: it is not acknowledged as
\* received.
C7_MissingIdRejected ==
    \A w \in Webhooks :
        (wpc[w] = "done" /\ ValidCompleted(w, NoBookingId))
        => woutcome[w] = "missingBookingId" /\ wstatus[w] # 200

\* C8: with the secret configured, a signature-valid event of another type
\* is acknowledged in the step that receives it and the tables are as they
\* were, whatever id its payload carries.
C8_OtherTypesIgnored ==
    [][\A w \in Webhooks :
         ( /\ wpc[w] = "idle" /\ wpc'[w] # "idle" /\ webhookSecretSet
           /\ wev'[w].sigValid /\ wev'[w].type # CompletedType )
         => /\ wpc'[w] = "done"
            /\ woutcome'[w] = "unhandledType"
            /\ wstatus'[w] = 200
            /\ dbVars' = dbVars]_vars

\* An event of another type that names an existing unpaid booking was
\* acknowledged.
C8_Witness ==
    \E w \in Webhooks :
        /\ wpc[w] = "done" /\ webhookSecretSet /\ wev[w].sigValid
        /\ wev[w].type = OtherType
        /\ wev[w].bookingId \in DOMAIN bookings
        /\ ~bookings[wev[w].bookingId].paid

\* The fields of a booking that no step may change.
Terms(b) == <<b.price, b.startTime, b.endTime, b.includeCaptain>>

\* C9 as stated: no step changes a booking's price, time window or its
\* boat, port and user references; paid changes only from false to true.
C9_AllImmutable ==
    [][\A b \in DOMAIN bookings :
         /\ b \in DOMAIN bookings'
         /\ Terms(bookings'[b]) = Terms(bookings[b])
         /\ bookings'[b].boatId = bookings[b].boatId
         /\ bookings'[b].portId = bookings[b].portId
         /\ bookings'[b].userId = bookings[b].userId
         /\ (bookings[b].paid => bookings'[b].paid)]_vars

\* C9 amended: no step changes a booking's price or time window; a
\* reference changes only to null, in the step that deletes the boat, port or
\* user it names; paid changes only from false to true.
C9_ImmutableExceptSetNull ==
    [][\A b \in DOMAIN bookings :
         /\ b \in DOMAIN bookings'
         /\ Terms(bookings'[b]) = Terms(bookings[b])
         /\ \/ bookings'[b].boatId = bookings[b].boatId
            \/ /\ bookings'[b].boatId = Null
               /\ bookings[b].boatId \in DOMAIN boats \ DOMAIN boats'
         /\ \/ bookings'[b].portId = bookings[b].portId
            \/ /\ bookings'[b].portId = Null
               /\ bookings[b].portId \in ports \ ports'
         /\ \/ bookings'[b].userId = bookings[b].userId
            \/ /\ bookings'[b].userId = Null
               /\ bookings[b].userId \in users \ users'
         /\ (bookings[b].paid => bookings'[b].paid)]_vars

\* A paid booking whose boat was deleted keeps the price it was created with.
C9_Witness ==
    \E b \in DOMAIN bookings :
        /\ bookings[b].paid
        /\ bookings[b].boatId = Null
        /\ bookings[b].price = Price(InitBoats["boatA"], GoodRequest)

\* C10: without the signing secret the service does not serve webhook
\* requests at all: it is not listening and no webhook request is handled.
C10_NoTrafficWithoutSecret ==
    ~webhookSecretSet =>
        /\ serverState # "listening"
        /\ \A w \in Webhooks : wpc[w] = "idle"


\* C11: when a handler requests the gateway session, the booking row with the
\* id it puts in the metadata already exists, holds the computed price and
\* has paid = false; every session created refers to an existing booking.
C11_ReservationBeforeGateway ==
    /\ \A c \in Checkouts :
          cpc[c] = "stripe" =>
            /\ cbooking[c] \in DOMAIN bookings
            /\ ~bookings[cbooking[c]].paid
            /\ bookings[cbooking[c]].price = cprice[c]
    /\ \A s \in sessions : s.bookingId \in DOMAIN bookings

C11_Witness ==
    \E c \in Checkouts :
        /\ cpc[c] = "done" /\ cstatus[c] = 200
        /\ \E s \in sessions : s.bookingId = cbooking[c]
        /\ cbooking[c] \in DOMAIN bookings

\* C12: the step in which the gateway request fails answers 500 and changes
\* neither the bookings nor the sessions; the booking the handler wrote is
\* still there afterwards, with its price and with paid = false.
C12_FailureLeavesPending ==
    /\ [][\A c \in Checkouts :
            (cpc[c] = "stripe" /\ cpc'[c] = "done" /\ cstatus'[c] = 500) =>
                bookings' = bookings /\ sessions' = sessions]_vars
    /\ [](\A c \in Checkouts :
            FailedAfterCreate(c) =>
                /\ cbooking[c] \in DOMAIN bookings
                /\ ~bookings[cbooking[c]].paid
                /\ bookings[cbooking[c]].price = cprice[c])

C12_Witness ==
    \E c \in Checkouts :
        FailedAfterCreate(c) /\ cbooking[c] \in DOMAIN bookings

\* Handler c is a retry (same body as a failed attempt that had written its
\* booking) whose payment has been confirmed and applied.
RetryPaid(c) ==
    /\ cretryOf[c] # NoBookingId
    /\ cpc[c] = "done" /\ cstatus[c] = 200
    /\ \E w \in Webhooks : ValidCompleted(w, cbooking[c]) /\ Applied(w)

\* C13: the booking left by a failed gateway request can still be paid by
\* retrying: once a retry has been paid, that booking is settled (the retry
\* acts on the booking left behind and creates no second one).
C13_RetrySettlesLeftReservation ==
    \A c \in Checkouts : RetryPaid(c) => bookings[cretryOf[c]].paid

\* C14: the session a handler creates carries the id of the booking that
\* handler wrote, no two handlers wrote the same booking, and the update for
\* a completed event changes the booking with the echoed id and no other.
C14_MetadataNamesOwnReservation ==
    /\ [][\A c \in Checkouts :
            (cpc[c] = "stripe" /\ cpc'[c] = "done" /\ cstatus'[c] = 200) =>
                \E s \in sessions' :
                    /\ sessions' = sessions \cup {s}
                    /\ s.bookingId = cbooking[c]]_vars
    /\ [][\A c \in Checkouts :
            (cpc[c] = "create" /\ cpc'[c] = "stripe") =>
                /\ cbooking'[c] \notin DOMAIN bookings
                /\ DOMAIN bookings' = DOMAIN bookings \cup {cbooking'[c]}]_vars
    /\ [][\A w \in Webhooks :
            (wpc[w] = "update" /\ wpc'[w] = "respond") =>
                /\ \A b \in DOMAIN bookings :
                      b # wev[w].bookingId => bookings'[b] = bookings[b]
                /\ (woutcome'[w] = "success") =>
                      bookings'[wev[w].bookingId].paid]_vars

C14_Witness ==
    \E w \in Webhooks, c \in Checkouts :
        /\ ValidCompleted(w, cbooking[c]) /\ Applied(w)
        /\ cpc[c] = "done" /\ cstatus[c] = 200
        /\ bookings[cbooking[c]].paid
        /\ \E b \in DOMAIN bookings : b # cbooking[c] /\ ~bookings[b].paid


\* 100 * price - unit_amount, in thousandths of a minor unit.
AmountGap(amount, price) == 100 * price - amount * MoneyScale

\* The amounts requested from the gateway, each with the stored price of the
\* booking in its metadata: the sessions created and the requests in flight.
RequestedAmounts ==
    {<<s.unit_amount, bookings[s.bookingId].price>> : s \in sessions}
    \cup {<<NewSession(c).unit_amount, bookings[cbooking[c]].price>> :
             c \in {x \in Checkouts : cpc[x] = "stripe"}}

\* C15: the amount requested from the gateway equals 100 times the stored
\* price of the booking in the session's metadata.
C15_AmountIsHundredTimesPrice ==
    \A a \in RequestedAmounts : AmountGap(a[1], a[2]) = 0

\* C15 amended: the amount is 100 times the stored price rounded to the
\* nearest integer: it differs from it by at most half a minor unit, and not
\* at all when the price is a whole number of minor units.
C15_AmountIsRoundedPrice ==
    \A a \in RequestedAmounts :
        /\ 2 * AmountGap(a[1], a[2]) <= MoneyScale
        /\ 2 * AmountGap(a[1], a[2]) >= -MoneyScale
        /\ ((100 * a[2]) % MoneyScale = 0) => AmountGap(a[1], a[2]) = 0

C15_Witness ==
    \E s \in sessions :
        /\ AmountGap(s.unit_amount, bookings[s.bookingId].price) # 0
        /\ \E t \in sessions : AmountGap(t.unit_amount, bookings[t.bookingId].price) = 0

\* The price the rate schedule gives: per_hour is the hourly rate times the
\* hours, half_day and full_day are the flat rates; the captain adds 100,
\* 200 or 400.
ScheduledPrice(boat, req) ==
    CASE req.bookingType = "per_hour" ->
            boat.hourlyRate * req.durationHours
                + (IF req.includeCaptain THEN Euro(100) ELSE 0)
      [] req.bookingType = "half_day" ->
            boat.halfDayRate + (IF req.includeCaptain THEN Euro(200) ELSE 0)
      [] req.bookingType = "full_day" ->
            boat.fullDayRate + (IF req.includeCaptain THEN Euro(400) ELSE 0)

\* Handler c has computed a price for a body with a recognized mode and with
\* the hours it needs.
Priced(c) ==
    /\ cpc[c] \in {"create", "stripe"} \/ cbooking[c] # NoBookingId
    /\ creq[c].bookingType \in RecognizedModes
    /\ creq[c].bookingType = "per_hour" => creq[c].durationHours # NaN

\* C16: for every rate schedule and every request with a recognized mode the
\* price computed, and the price stored, is the one the schedule gives; rates
\* {50, 300, 500}, per_hour, 4 hours, no captain give 200.
C16_PriceFollowsSchedule ==
    \A c \in Checkouts :
        Priced(c) =>
            /\ cprice[c] = ScheduledPrice(boats[creq[c].boatId], creq[c])
            /\ cbooking[c] # NoBookingId => bookings[cbooking[c]].price = cprice[c]
            /\ ( /\ boats = InitBoats
                 /\ creq[c] = [GoodRequest EXCEPT !.includeCaptain = FALSE] )
                  => cprice[c] = Euro(200)

C16_Witness ==
    \E c \in Checkouts :
        /\ boats = InitBoats
        /\ creq[c] = [GoodRequest EXCEPT !.includeCaptain = FALSE]
        /\ cbooking[c] \in DOMAIN bookings
        /\ bookings[cbooking[c]].price = Euro(200)

\* C17: a request whose bookingType is not one of the three recognized
\* values fails: no booking is written for it and the gateway is not
\* contacted.
C17_UnknownModeRejected ==
    \A c \in Checkouts :
        (cpc[c] # "idle" /\ creq[c].bookingType \notin RecognizedModes) =>
            /\ cbooking[c] = NoBookingId
            /\ cpc[c] # "stripe"
            /\ cstatus[c] # 200

\* C18: every booking written has a non-negative price and every amount
\* requested from the gateway is non-negative (the rates are non-negative).
C18_NonNegativePrice ==
    /\ \A b \in DOMAIN bookings : bookings[b].price >= 0
    /\ \A a \in RequestedAmounts : a[1] >= 0

\* C19: a request that lacks any of the eight fields is rejected: nothing is
\* written for it and the gateway is not contacted.
C19_AbsentFieldRejected ==
    \A c \in Checkouts :
        (cpc[c] # "idle" /\ creq[c].absent # {}) =>
            /\ cbooking[c] = NoBookingId
            /\ cpc[c] # "stripe"
            /\ cstatus[c] # 200

\* C20: a request that passes the validation and names no existing boat is
\* answered 404 in the step that receives it, which changes neither the
\* bookings nor the sessions; no booking or session is ever made for it.
C20_BoatNotFound ==
    /\ [][\A c \in Checkouts :
            ( /\ cpc[c] = "idle" /\ cpc'[c] # "idle"
              /\ ValidRequest(creq'[c])
              /\ creq'[c].boatId \notin DOMAIN boats ) =>
                /\ cpc'[c] = "done" /\ cstatus'[c] = 404
                /\ bookings' = bookings
                /\ sessions' = sessions]_vars
    /\ [](\A c \in Checkouts :
            (cpc[c] = "done" /\ cstatus[c] = 404) =>
                /\ cbooking[c] = NoBookingId
                /\ \A s \in sessions : s.bookingId \in DOMAIN bookings)

C20_Witness ==
    \E c \in Checkouts :
        /\ cpc[c] = "done" /\ cstatus[c] = 404
        /\ creq[c] = GoodRequest
        /\ bookings # << >>


\* Handler c answered 200.
Succeeded(c) == cpc[c] = "done" /\ cstatus[c] = 200

\* C21: the id in a successful response is the id of the booking the handler
\* wrote.
C21_ResponseIsReservationId ==
    \A c \in Checkouts : Succeeded(c) => cresponse[c] = cbooking[c]

\* C21 amended: the id in a successful response is the id of the gateway
\* session the handler created, which is not a booking id; that session
\* names the booking the handler wrote in its metadata and in its success
\* URL.  No other response carries an id.
C21_ResponseIsSessionId ==
    \A c \in Checkouts :
        /\ Succeeded(c) =>
              /\ cbooking[c] \in DOMAIN bookings
              /\ cresponse[c] \notin DOMAIN bookings
              /\ \E s \in sessions :
                    /\ s.id = cresponse[c]
                    /\ s.bookingId = cbooking[c]
                    /\ s.successBookingId = cbooking[c]
        /\ ~Succeeded(c) => cresponse[c] = NoSessionId

C21_Witness ==
    \E c \in Checkouts :
        Succeeded(c) /\ cresponse[c] # NoSessionId /\ cbooking[c] # NoBookingId

\* C22: every booking in the store ends strictly later than it starts.
C22_EndAfterStart ==
    \A b \in DOMAIN bookings : bookings[b].endTime > bookings[b].startTime

\* The value of a reference after a delete: null when the row it named is
\* gone, else what it was.
Cleared(ref, before, after) == IF ref \in before \ after THEN Null ELSE ref

\* C23: a step that deletes a boat, a port or a user keeps every booking:
\* the references to the deleted row become null, the other references, the
\* price, the time window and the paid flag stay as they were.
C23_ReservationSurvivesDelete ==
    [][(boats' # boats \/ ports' # ports \/ users' # users) =>
        /\ DOMAIN bookings' = DOMAIN bookings
        /\ \A b \in DOMAIN bookings :
              /\ bookings'[b].boatId = Cleared(bookings[b].boatId, DOMAIN boats, DOMAIN boats')
              /\ bookings'[b].portId = Cleared(bookings[b].portId, ports, ports')
              /\ bookings'[b].userId = Cleared(bookings[b].userId, users, users')
              /\ bookings'[b].price = bookings[b].price
              /\ bookings'[b].startTime = bookings[b].startTime
              /\ bookings'[b].endTime = bookings[b].endTime
              /\ bookings'[b].paid = bookings[b].paid]_vars

C23_Witness ==
    \E b \in DOMAIN bookings :
        /\ bookings[b].boatId = Null
        /\ bookings[b].portId = Null
        /\ bookings[b].userId = Null
        /\ bookings[b].paid
        /\ bookings[b].price = Price(InitBoats["boatA"], GoodRequest)

\* C24: the bookings already stored never decide a request: a valid request
\* for an existing boat goes on to the insert, the insert can write the row
\* whenever its foreign keys hold, a handler that stops at the insert answers
\* 500, and the row written is the request's, also when it overlaps another.
C24_NoOverlapCheck ==
    /\ [](\A c \in Checkouts :
            ( /\ cpc[c] = "create"
              /\ ForeignKeysHold(NewBooking(creq[c], cprice[c]))
              /\ cprice[c] # NaN ) => ENABLED <<CheckoutCreate(c)>>_bookings)
    /\ [][\A c \in Checkouts :
            /\ ( /\ cpc[c] = "idle" /\ cpc'[c] # "idle"
                 /\ ValidRequest(creq'[c])
                 /\ creq'[c].boatId \in DOMAIN boats ) => cpc'[c] = "create"
            /\ (cpc[c] = "create" /\ cpc'[c] = "done") => cstatus'[c] = 500
            /\ (cpc[c] = "create" /\ cpc'[c] = "stripe") =>
                  /\ cbooking'[c] \notin DOMAIN bookings
                  /\ bookings' = bookings @@
                        (cbooking'[c] :> NewBooking(creq[c], cprice[c]))]_vars

C24_Witness ==
    \E a, b \in DOMAIN bookings :
        /\ a # b
        /\ bookings[a].boatId = "boatA"
        /\ Overlap(bookings[a], bookings[b])
        /\ bookings[a].paid /\ bookings[b].paid

\* C25: the user id stored on a booking is the identity of the authenticated
\* caller of the request that created it; no booking is created for a
\* request without authentication.
C25_RequesterIsCaller ==
    \A c \in Checkouts :
        cbooking[c] \in DOMAIN bookings =>
            /\ creq[c].caller # Anonymous
            /\ bookings[cbooking[c]].userId = creq[c].caller

\* C26: every request that removed a port came with a valid token whose role
\* is ADMIN.
C26_PortDeletedByAdminOnly ==
    \A k \in portDeletedBy : k # Anonymous /\ TokenRole(k) = "ADMIN"

\* C27: once users have been registered, starting from an empty table,
\* exactly one of them has role ADMIN.
C27_ExactlyOneAdmin ==
    users # {} => Cardinality({u \in users : roles[u] = "ADMIN"}) = 1

\* C28: when the webhook handler has answered 200 to a signature-valid
\* completed event whose metadata names an existing booking, that booking
\* is paid.
C28_AckImpliesPaid ==
    \A w \in Webhooks : \A b \in DOMAIN bookings :
        (wpc[w] = "done" /\ wstatus[w] = 200 /\ ValidCompleted(w, b)) =>
            bookings[b].paid

\* C29: a step of a webhook handler changes no user, port, boat or session
\* and no booking but the one its event names, and of that one nothing but
\* the paid flag.
C29_OnlyPaidOfNamedBooking ==
    [][\A w \in Webhooks :
        wpc'[w] # wpc[w] =>
            /\ UNCHANGED <<users, roles, ports, boats, sessions>>
            /\ DOMAIN bookings' = DOMAIN bookings
            /\ \A b \in DOMAIN bookings :
                  /\ b # wev'[w].bookingId => bookings'[b] = bookings[b]
                  /\ [bookings'[b] EXCEPT !.paid = bookings[b].paid] = bookings[b]]_vars

C29_Witness ==
    \E v, w \in Webhooks :
        /\ wpc[v] = "respond" /\ wpc[w] = "respond"
        /\ wev[v].bookingId # wev[w].bookingId
        /\ woutcome[v] = "success" /\ woutcome[w] = "success"
        /\ \A b \in DOMAIN bookings : bookings[b].paid

\* The event of handler w is a signed completed event for a session the
\* checkout handler created.
ForCreatedSession(w) ==
    /\ wpc[w] # "idle"
    /\ wev[w].sigValid /\ wev[w].type = CompletedType
    /\ \E s \in sessions : s.bookingId = wev[w].bookingId

\* C30: a completed event for a session the checkout handler created names a
\* booking that is in the store while the event is handled, and its update
\* never ends with "no such row".
C30_CreatedSessionEventKnown ==
    \A w \in Webhooks :
        ForCreatedSession(w) =>
            /\ wev[w].bookingId \in DOMAIN bookings
            /\ woutcome[w] # "notFound"

C30_Witness ==
    \E w \in Webhooks :
        /\ ForCreatedSession(w)
        /\ wpc[w] = "done" /\ woutcome[w] = "success"
        /\ \E v \in Webhooks : v # w /\ woutcome[v] = "notFound"

====
